---- MODULE Spec2Model ----
(***************************************************************************)
(* Debt-payoff snowball scheduler of the Ledger debt page (runSnowball).   *)
(*                                                                         *)
(* Amounts are counted in units of 0.000001 (the epsilon the code compares *)
(* against), so EPSILON is 1: the amount 1 is positive but not above       *)
(* epsilon, every amount >= 2 is above epsilon.  Arithmetic is exact.      *)
(***************************************************************************)
EXTENDS Integers, Sequences, FiniteSets, Bags, TLC

\* ------------------------------------------------------------------ bounds
MaxDebts == 2
MaxAmount == 3
MaxMin == 1
MaxExtra == 4
MaxMonths == 3
MaxInstallments == 1
MaxMonthsTotal == 2
MaxTasks == 2

\* ------------------------------------------------------- program constants
\* 0.000001 in the snowball loop and the final break, in units of 0.000001
EPSILON == 1

VARIABLES
    debts,          \* argument: the input list of debt items
    extraPayment,   \* argument
    maxMonths,      \* argument
    pc,             \* position of the call: "call", "loop", "snowball", "done"
    active,         \* working copy: debts with debtAmount > 0, plus remaining
    totalMonthly,   \* the monthly budget, computed once
    months,         \* the schedule built so far
    monthIndex,     \* loop counter
    stillActive,    \* this month's active debts, as indices into active
    extra,          \* this month's snowball amount left
    payments,       \* this month's payments, id -> amount
    remainingById,  \* this month's recorded balances, id -> amount
    other,          \* a second call on the same debts array: its arguments and locals
    accounts,       \* DebtContent: the accounts loaded
    config,         \* DebtContent: the debt settings in memory
    selectedCurrency, \* DebtContent: the currency shown
    stored,         \* the localStorage item debt_tracker_config_v1
    installments,   \* DebtContent: the installments loaded
    server,         \* the rows of the installments table behind the API
    tasks           \* the asynchronous calls under way: updates and loads

\* the installments section and what it talks to
installmentVars == <<installments, server, tasks>>

\* the state of the page around the call
pageVars == <<accounts, config, selectedCurrency, stored, installments, server, tasks>>

vars == <<debts, extraPayment, maxMonths, pc, active, totalMonthly, months,
          monthIndex, stillActive, extra, payments, remainingById, other,
          accounts, config, selectedCurrency, stored, installments, server, tasks>>

\* ----------------------------------------------------------------- helpers
\* Math.max / Math.min
Max(a, b) == IF a >= b THEN a ELSE b
Min(a, b) == IF a <= b THEN a ELSE b

\* x || 0 on a number: 0 (and NaN, not in the model) are falsy
OrZero(x) == IF x = 0 THEN 0 ELSE x

\* obj[key] || 0 : a missing key reads undefined
GetOrZero(f, k) == IF k \in DOMAIN f THEN OrZero(f[k]) ELSE 0

\* obj[key] = v
Put(f, k, v) == [x \in (DOMAIN f) \cup {k} |-> IF x = k THEN v ELSE f[x]]

EmptyMap == <<>>

\* Object.values(payments).reduce((sum, v) => sum + v, 0)
RECURSIVE SumValues(_, _)
SumValues(f, keys) ==
    IF keys = {} THEN 0
    ELSE LET k == CHOOSE x \in keys : TRUE
         IN f[k] + SumValues(f, keys \ {k})

TotalPaidOf(pay) == SumValues(pay, DOMAIN pay)

\* mutants of the filter: zero balances kept / nothing dropped
KeepDebt_NonNegative(d) == d.debtAmount >= 0
KeepDebt_All(d) == TRUE

\* debts.filter((d) => d.debtAmount > 0)
KeepDebt(d) == d.debtAmount > 0

\* .filter(...).map((d) => ({ ...d, remaining: d.debtAmount }))
MakeActive(ds) ==
    LET kept == SelectSeq(ds, KeepDebt)
    IN [i \in 1..Len(kept) |->
          [id |-> kept[i].id, debtAmount |-> kept[i].debtAmount,
           minPayment |-> kept[i].minPayment, remaining |-> kept[i].debtAmount]]

\* the positions in ds of the debts the filter keeps
RECURSIVE KeptFrom(_, _)
KeptFrom(ds, i) ==
    IF i > Len(ds) THEN <<>>
    ELSE IF KeepDebt(ds[i]) THEN <<i>> \o KeptFrom(ds, i + 1)
         ELSE KeptFrom(ds, i + 1)

KeptPositions(ds) == KeptFrom(ds, 1)

\* mutant: the map callback sets d.remaining and returns d itself
WorkingRefs_InPlace(ds) == KeptPositions(ds)

\* Which object each working record is: i for the caller's object debts[i],
\* 0 for an object the call created.  ({ ...d, remaining: d.debtAmount }) is
\* a new object for every kept debt.
WorkingRefs(ds) == [k \in 1..Len(KeptPositions(ds)) |-> 0]

\* The caller's array after the assignments to `remaining` of the working
\* records act: an assignment to a working record that is the caller's
\* object debts[i] shows in debts[i].
Written(ds, act) ==
    LET refs == WorkingRefs(ds)
    IN [i \in 1..Len(ds) |->
          IF \E k \in 1..Len(act) : refs[k] = i
          THEN LET k == CHOOSE j \in 1..Len(act) : refs[j] = i
               IN [id |-> ds[i].id, debtAmount |-> ds[i].debtAmount,
                   minPayment |-> ds[i].minPayment, remaining |-> act[k].remaining]
          ELSE ds[i]]

\* The working records act as a read finds them: a record that is the
\* caller's object debts[i] holds what was last assigned to debts[i].
Loaded(ds, act) ==
    LET refs == WorkingRefs(ds)
    IN [k \in 1..Len(act) |->
          IF refs[k] # 0 /\ "remaining" \in DOMAIN ds[refs[k]]
          THEN [act[k] EXCEPT !.remaining = ds[refs[k]].remaining]
          ELSE act[k]]

\* xs.reduce((sum, d) => sum + (d.minPayment || 0), 0)
RECURSIVE SumMinPayment(_)
SumMinPayment(xs) ==
    IF xs = <<>> THEN 0
    ELSE SumMinPayment(SubSeq(xs, 1, Len(xs) - 1)) + OrZero(xs[Len(xs)].minPayment)

\* mutant: extraPayment is left out of the budget
TotalMonthlyOf_MinimumsOnly(act, ep) == SumMinPayment(act)

\* active.reduce(...) + extraPayment
TotalMonthlyOf(act, ep) == SumMinPayment(act) + ep

\* active.filter((d) => d.remaining > 0), as the indices of the kept objects
RECURSIVE StillActiveFrom(_, _)
StillActiveFrom(act, i) ==
    IF i > Len(act) THEN <<>>
    ELSE IF act[i].remaining > 0 THEN <<i>> \o StillActiveFrom(act, i + 1)
         ELSE StillActiveFrom(act, i + 1)

StillActiveOf(act) == StillActiveFrom(act, 1)

\* the objects the indices stand for
Objects(act, still) == [k \in 1..Len(still) |-> act[still[k]]]

\* stillActive.reduce((sum, d) => sum + (d.minPayment || 0), 0)
RequiredMinOf(act, still) == SumMinPayment(Objects(act, still))

\* mutant: the minimums of all the working records are taken off, paid off or not
ExtraOf_NoRollover(total, act, still) == Max(0, total - SumMinPayment(act))

\* mutants: the required minimums are not taken off / the operands are swapped
ExtraOf_Whole(total, act, still) == Max(0, total)
ExtraOf_Swapped(total, act, still) == Max(0, RequiredMinOf(act, still) - total)

\* Math.max(0, totalMonthly - requiredMin)
ExtraOf(total, act, still) == Max(0, total - RequiredMinOf(act, still))

\* mutant: the minimum is paid in full whatever is still owed
MinPayOne_Uncapped(s, idx) ==
    LET debt == s.active[idx]
        minPay == Max(0, OrZero(debt.minPayment))
        paid == minPay
        left == debt.remaining - paid
    IN [active |-> [s.active EXCEPT ![idx].remaining = left],
        payments |-> Put(s.payments, debt.id, GetOrZero(s.payments, debt.id) + paid),
        remainingById |-> Put(s.remainingById, debt.id, left)]

\* mutant: a debt that is paid nothing is not recorded
MinPayOne_SkipUnpaid(s, idx) ==
    LET debt == s.active[idx]
        minPay == Max(0, OrZero(debt.minPayment))
        paid == Min(debt.remaining, minPay)
        left == debt.remaining - paid
    IN IF paid = 0 THEN s
       ELSE [active |-> [s.active EXCEPT ![idx].remaining = left],
             payments |-> Put(s.payments, debt.id, GetOrZero(s.payments, debt.id) + paid),
             remainingById |-> Put(s.remainingById, debt.id, left)]

\* mutant: the minimum payment is not clamped at 0
MinPayOne_NoClamp(s, idx) ==
    LET debt == s.active[idx]
        minPay == OrZero(debt.minPayment)
        paid == Min(debt.remaining, minPay)
        left == debt.remaining - paid
    IN [active |-> [s.active EXCEPT ![idx].remaining = left],
        payments |-> Put(s.payments, debt.id, GetOrZero(s.payments, debt.id) + paid),
        remainingById |-> Put(s.remainingById, debt.id, left)]

\* one iteration of "for (const debt of stillActive)": pay the minimum
MinPayOne(s, idx) ==
    LET debt == s.active[idx]
        minPay == Max(0, OrZero(debt.minPayment))
        paid == Min(debt.remaining, minPay)
        left == debt.remaining - paid
    IN [active |-> [s.active EXCEPT ![idx].remaining = left],
        payments |-> Put(s.payments, debt.id, GetOrZero(s.payments, debt.id) + paid),
        remainingById |-> Put(s.remainingById, debt.id, left)]

\* the whole minimum-payment loop, from empty payments and remainingById
RECURSIVE MinPassFrom(_, _, _)
MinPassFrom(s, still, k) ==
    IF k > Len(still) THEN s
    ELSE MinPassFrom(MinPayOne(s, still[k]), still, k + 1)

MinPass(act, still) ==
    MinPassFrom([active |-> act, payments |-> EmptyMap, remainingById |-> EmptyMap],
                still, 1)

\* stillActive.filter((d) => d.remaining > 0.000001), as positions in stillActive
Eligible(act, still) == {k \in 1..Len(still) : act[still[k]].remaining > EPSILON}

\* mutant: the sort is missing, the first debt above epsilon is taken
Target_Unsorted(act, still) ==
    LET el == Eligible(act, still)
    IN IF el = {} THEN 0
       ELSE still[CHOOSE k \in el : \A j \in el : k <= j]

\* mutant: the comparator is reversed, the largest balance comes first
Target_Largest(act, still) ==
    LET el == Eligible(act, still)
    IN IF el = {} THEN 0
       ELSE still[CHOOSE k \in el :
                    \A j \in el :
                        \/ act[still[k]].remaining > act[still[j]].remaining
                        \/ (act[still[k]].remaining = act[still[j]].remaining /\ k <= j)]

\* .sort((a, b) => a.remaining - b.remaining)[0] : the sort is stable, so the
\* first is the earliest of the debts with the least remaining; 0 for undefined
Target(act, still) ==
    LET el == Eligible(act, still)
    IN IF el = {} THEN 0
       ELSE still[CHOOSE k \in el :
                    \A j \in el :
                        \/ act[still[k]].remaining < act[still[j]].remaining
                        \/ (act[still[k]].remaining = act[still[j]].remaining /\ k <= j)]

\* while (extra > 0.000001) { ... if (!target) break ... }
SnowballGoes(act, still, ex) == ex > EPSILON /\ Target(act, still) # 0

\* mutant: the snowball payment replaces the minimum payment recorded before
SnowballOne_Overwrite(s, still) ==
    LET t == Target(s.active, still)
        target == s.active[t]
        paid == Min(target.remaining, s.extra)
        left == target.remaining - paid
    IN [active |-> [s.active EXCEPT ![t].remaining = left],
        extra |-> s.extra - paid,
        payments |-> Put(s.payments, target.id, paid),
        remainingById |-> Put(s.remainingById, target.id, left)]

\* mutant: the target is paid off whatever extra is left
SnowballOne_Uncapped(s, still) ==
    LET t == Target(s.active, still)
        target == s.active[t]
        paid == target.remaining
        left == target.remaining - paid
    IN [active |-> [s.active EXCEPT ![t].remaining = left],
        extra |-> s.extra - paid,
        payments |-> Put(s.payments, target.id, GetOrZero(s.payments, target.id) + paid),
        remainingById |-> Put(s.remainingById, target.id, left)]

\* the body of one snowball iteration
SnowballOne(s, still) ==
    LET t == Target(s.active, still)
        target == s.active[t]
        paid == Min(target.remaining, s.extra)
        left == target.remaining - paid
    IN [active |-> [s.active EXCEPT ![t].remaining = left],
        extra |-> s.extra - paid,
        payments |-> Put(s.payments, target.id, GetOrZero(s.payments, target.id) + paid),
        remainingById |-> Put(s.remainingById, target.id, left)]

\* mutant: the months are numbered from 0
MonthRecord_FromZero(mi, pay, rem) ==
    [monthIndex |-> mi - 1, totalPaid |-> TotalPaidOf(pay), payments |-> pay,
     remainingById |-> rem]

\* { monthIndex, totalPaid, payments, remainingById }
MonthRecord(mi, pay, rem) ==
    [monthIndex |-> mi, totalPaid |-> TotalPaidOf(pay), payments |-> pay,
     remainingById |-> rem]

\* mutant: the final break is missing
AllPaidOff_Never(act, still) == FALSE

\* mutants: some instead of every / 0 instead of 0.000001
AllPaidOff_Some(act, still) == \E k \in 1..Len(still) : act[still[k]].remaining <= EPSILON
AllPaidOff_Zero(act, still) == \A k \in 1..Len(still) : act[still[k]].remaining <= 0

\* stillActive.every((d) => d.remaining <= 0.000001)
AllPaidOff(act, still) == \A k \in 1..Len(still) : act[still[k]].remaining <= EPSILON

\* mutants: the loop test is off by one, either way
LoopGoes_OffByOne(mi, mm) == mi <= mm + 1
LoopGoes_Strict(mi, mm) == mi < mm

\* for (let monthIndex = 1; monthIndex <= maxMonths; ...)
LoopGoes(mi, mm) == mi <= mm

\* ------------------------------------------------------------ input domain
\* debt lists with amounts in A and minimum payments in M; the ids are distinct
DebtListsOver(A, M) ==
    UNION { { [i \in 1..n |-> [id |-> i, debtAmount |-> f[i][1], minPayment |-> f[i][2]]] :
                f \in [1..n -> A \X M] } : n \in 0..MaxDebts }

\* any numbers, negative ones included
DebtLists == DebtListsOver(-1..MaxAmount, -1..MaxMin)
ExtraPayments == -1..MaxExtra

\* the documented domain: debtAmount >= 0, minPayment >= 0, extraPayment >= 0
\* (as many amounts and minimum payments as above, all of them non-negative)
NonNegativeDebtLists == DebtListsOver(0..(MaxAmount + 1), 0..(MaxMin + 1))
NonNegativeExtraPayments == 0..MaxExtra

\* ------------------------------------------------- the settings of the page
Currencies == {"MXN", "USD"}

\* defaultConfig()
DefaultConfig ==
    [version |-> 1,
     currencyBudgets |-> [c \in Currencies |-> [extraPayment |-> 0]],
     minPaymentsByAccountId |-> EmptyMap]

\* localStorage.getItem of a key never set
NoItem == "null"

\* JSON.stringify / JSON.parse of a settings object: a text that holds the
\* object's fields (every number of the model is finite, and prints and
\* parses back as itself)
Stringify(obj) == <<"json", obj>>
Parse(raw) == raw[2]

\* saveConfig(config): the text written under debt_tracker_config_v1
SaveConfig(cfg) == Stringify(cfg)

\* parsed.currencyBudgets?.[c]?.extraPayment ?? 0
StoredBudget(parsed, c) ==
    IF /\ "currencyBudgets" \in DOMAIN parsed
       /\ c \in DOMAIN parsed.currencyBudgets
       /\ "extraPayment" \in DOMAIN parsed.currencyBudgets[c]
    THEN parsed.currencyBudgets[c].extraPayment
    ELSE 0

\* mutant: the stored minimum payments are not read back
LoadConfig_NoMinimums(raw) ==
    IF raw = NoItem THEN DefaultConfig
    ELSE LET parsed == Parse(raw)
         IN [version |-> 1,
             currencyBudgets |->
                 [c \in Currencies |-> [extraPayment |-> StoredBudget(parsed, c)]],
             minPaymentsByAccountId |-> EmptyMap]

\* loadConfig() on the stored text raw
LoadConfig(raw) ==
    IF raw = NoItem THEN DefaultConfig
    ELSE LET parsed == Parse(raw)
         IN [version |-> 1,
             currencyBudgets |->
                 [c \in Currencies |-> [extraPayment |-> StoredBudget(parsed, c)]],
             minPaymentsByAccountId |->
                 IF "minPaymentsByAccountId" \in DOMAIN parsed
                 THEN parsed.minPaymentsByAccountId
                 ELSE EmptyMap]

\* mutant: the entered value is stored as it is
ClampInput_None(value) == value

\* Math.max(0, value) in setMinPayment and setExtraPayment
ClampInput(value) == Max(0, value)

\* accounts.filter((a) => a.type === "credit")
IsCredit(a) == a.type = "credit"
CreditAccounts(accs) == SelectSeq(accs, IsCredit)

\* the currencies of the credit accounts, in the order they first appear
RECURSIVE CurrenciesFrom(_, _, _)
CurrenciesFrom(credit, i, seen) ==
    IF i > Len(credit) THEN seen
    ELSE IF \E k \in 1..Len(seen) : seen[k] = credit[i].currency
         THEN CurrenciesFrom(credit, i + 1, seen)
         ELSE CurrenciesFrom(credit, i + 1, Append(seen, credit[i].currency))

CurrenciesOf(accs) == CurrenciesFrom(CreditAccounts(accs), 1, <<>>)

\* the effect that keeps selectedCurrency among the currencies of the accounts
SelectedAmong(sel, accs) ==
    LET cs == CurrenciesOf(accs)
    IN IF Len(cs) = 0 THEN sel
       ELSE IF \E k \in 1..Len(cs) : cs[k] = sel THEN sel
            ELSE cs[1]

\* config.minPaymentsByAccountId[a.id] ?? 0
MinPaymentOf(cfg, id) ==
    IF id \in DOMAIN cfg.minPaymentsByAccountId THEN cfg.minPaymentsByAccountId[id] ELSE 0

\* the DebtItem of an account
DebtItemOf(a, cfg) ==
    [id |-> a.id, debtAmount |-> Max(0, 0 - a.balance), minPayment |-> MinPaymentOf(cfg, a.id)]

\* .sort((a, b) => a.debtAmount - b.debtAmount): stable, ascending
RECURSIVE InsertByDebtAmount(_, _)
InsertByDebtAmount(d, xs) ==
    IF xs = <<>> THEN <<d>>
    ELSE IF d.debtAmount < Head(xs).debtAmount THEN <<d>> \o xs
         ELSE <<Head(xs)>> \o InsertByDebtAmount(d, Tail(xs))

RECURSIVE SortByDebtAmount(_)
SortByDebtAmount(xs) ==
    IF xs = <<>> THEN <<>>
    ELSE InsertByDebtAmount(xs[Len(xs)], SortByDebtAmount(SubSeq(xs, 1, Len(xs) - 1)))

\* .filter((a) => a.currency === selectedCurrency).map(...), from position i on
RECURSIVE DebtItemsFrom(_, _, _, _)
DebtItemsFrom(credit, sel, cfg, i) ==
    IF i > Len(credit) THEN <<>>
    ELSE IF credit[i].currency = sel
         THEN <<DebtItemOf(credit[i], cfg)>> \o DebtItemsFrom(credit, sel, cfg, i + 1)
         ELSE DebtItemsFrom(credit, sel, cfg, i + 1)

\* the debts memo: credit accounts of the selected currency as DebtItems, sorted
DebtsOf(accs, sel, cfg) ==
    SortByDebtAmount(DebtItemsFrom(CreditAccounts(accs), sel, cfg, 1))

\* config.currencyBudgets[selectedCurrency]?.extraPayment ?? 0
ExtraPaymentOf(cfg, sel) ==
    IF sel \in DOMAIN cfg.currencyBudgets THEN cfg.currencyBudgets[sel].extraPayment ELSE 0

\* no installments, no call to the API under way
NoInstallments ==
    /\ installments = <<>>
    /\ server = <<>>
    /\ tasks = EmptyBag

\* no page around the call
NoPage ==
    /\ accounts = <<>>
    /\ config = DefaultConfig
    /\ selectedCurrency = "MXN"
    /\ stored = NoItem
    /\ NoInstallments

\* ------------------------------------------------- a call as a frame of locals
\* the arguments and locals of a call that has executed nothing yet
NewFrame(ep, mm) ==
    [pc |-> "call", extraPayment |-> ep, maxMonths |-> mm, active |-> <<>>,
     totalMonthly |-> 0, months |-> <<>>, monthIndex |-> 0, stillActive |-> <<>>,
     extra |-> 0, payments |-> EmptyMap, remainingById |-> EmptyMap]

\* no second call
NoCall == [pc |-> "none"]

\* ------------------------------------------------------------------ actions
\* a call of runSnowball with its arguments bound, nothing executed yet
InitOver(lists, extras) ==
    /\ debts \in lists
    /\ extraPayment \in extras
    /\ maxMonths \in 0..MaxMonths
    /\ pc = "call"
    /\ active = <<>>
    /\ totalMonthly = 0
    /\ months = <<>>
    /\ monthIndex = 0
    /\ stillActive = <<>>
    /\ extra = 0
    /\ payments = EmptyMap
    /\ remainingById = EmptyMap
    /\ other = NoCall
    /\ NoPage

Init == InitOver(DebtLists, ExtraPayments)

InitNonNegative == InitOver(NonNegativeDebtLists, NonNegativeExtraPayments)

\* entry of runSnowball up to the loop
Call ==
    /\ pc = "call"
    /\ active' = MakeActive(debts)
    /\ IF Len(active') = 0
       THEN /\ pc' = "done"
            /\ UNCHANGED <<totalMonthly, monthIndex>>
       ELSE /\ pc' = "loop"
            /\ totalMonthly' = TotalMonthlyOf(active', extraPayment)
            /\ monthIndex' = 1
    /\ months' = <<>>
    /\ debts' = Written(debts, active')
    /\ UNCHANGED <<extraPayment, maxMonths, stillActive, extra, payments,
                   remainingById, other, pageVars>>

\* top of the month loop: loop test, stillActive, requiredMin, extra, minimums
MonthStart ==
    /\ pc = "loop"
    /\ LET still == StillActiveOf(active)
       IN IF ~LoopGoes(monthIndex, maxMonths) \/ Len(still) = 0
          THEN /\ pc' = "done"
               /\ UNCHANGED <<active, stillActive, extra, payments, remainingById>>
          ELSE LET s == MinPass(active, still)
               IN /\ pc' = "snowball"
                  /\ stillActive' = still
                  /\ extra' = ExtraOf(totalMonthly, active, still)
                  /\ active' = s.active
                  /\ payments' = s.payments
                  /\ remainingById' = s.remainingById
    /\ debts' = Written(debts, active')
    /\ UNCHANGED <<extraPayment, maxMonths, totalMonthly, months, monthIndex, other,
                   pageVars>>

\* one iteration of the snowball loop
SnowballStep ==
    /\ pc = "snowball"
    /\ SnowballGoes(active, stillActive, extra)
    /\ LET s == SnowballOne([active |-> active, extra |-> extra, payments |-> payments,
                             remainingById |-> remainingById], stillActive)
       IN /\ active' = s.active
          /\ extra' = s.extra
          /\ payments' = s.payments
          /\ remainingById' = s.remainingById
    /\ debts' = Written(debts, active')
    /\ UNCHANGED <<extraPayment, maxMonths, pc, totalMonthly, months, monthIndex,
                   stillActive, other, pageVars>>

\* exit of the snowball loop, push of the month, final break test, monthIndex += 1
MonthEnd ==
    /\ pc = "snowball"
    /\ ~SnowballGoes(active, stillActive, extra)
    /\ months' = Append(months, MonthRecord(monthIndex, payments, remainingById))
    /\ IF AllPaidOff(active, stillActive)
       THEN pc' = "done" /\ UNCHANGED monthIndex
       ELSE pc' = "loop" /\ monthIndex' = monthIndex + 1
    /\ UNCHANGED <<debts, extraPayment, maxMonths, active, totalMonthly, stillActive,
                   extra, payments, remainingById, other, pageVars>>

Next == Call \/ MonthStart \/ SnowballStep \/ MonthEnd

Spec == Init /\ [][Next]_vars

\* the calls on the documented domain only
SpecNonNegative == InitNonNegative /\ [][Next]_vars

FairSpec == Spec /\ WF_vars(Next)

\* ------------------------------------------------ two calls, interleaved
\* the arguments and locals of the first call, as a frame
Frame ==
    [pc |-> pc, extraPayment |-> extraPayment, maxMonths |-> maxMonths,
     active |-> active, totalMonthly |-> totalMonthly, months |-> months,
     monthIndex |-> monthIndex, stillActive |-> stillActive, extra |-> extra,
     payments |-> payments, remainingById |-> remainingById]

\* entry of runSnowball up to the loop, on a frame
CallOf(f, ds) ==
    LET act == MakeActive(ds)
    IN IF Len(act) = 0
       THEN [f EXCEPT !.pc = "done", !.active = act, !.months = <<>>]
       ELSE [f EXCEPT !.pc = "loop", !.active = act, !.months = <<>>,
                      !.totalMonthly = TotalMonthlyOf(act, f.extraPayment),
                      !.monthIndex = 1]

\* top of the month loop, on a frame
MonthStartOf(f) ==
    LET still == StillActiveOf(f.active)
    IN IF ~LoopGoes(f.monthIndex, f.maxMonths) \/ Len(still) = 0
       THEN [f EXCEPT !.pc = "done"]
       ELSE LET s == MinPass(f.active, still)
            IN [f EXCEPT !.pc = "snowball", !.stillActive = still,
                         !.extra = ExtraOf(f.totalMonthly, f.active, still),
                         !.active = s.active, !.payments = s.payments,
                         !.remainingById = s.remainingById]

\* one iteration of the snowball loop, on a frame
SnowballStepOf(f) ==
    LET s == SnowballOne([active |-> f.active, extra |-> f.extra,
                          payments |-> f.payments,
                          remainingById |-> f.remainingById], f.stillActive)
    IN [f EXCEPT !.active = s.active, !.extra = s.extra, !.payments = s.payments,
                 !.remainingById = s.remainingById]

\* exit of the snowball loop, push of the month, final break test, on a frame
MonthEndOf(f) ==
    LET out == Append(f.months, MonthRecord(f.monthIndex, f.payments, f.remainingById))
    IN IF AllPaidOff(f.active, f.stillActive)
       THEN [f EXCEPT !.months = out, !.pc = "done"]
       ELSE [f EXCEPT !.months = out, !.pc = "loop", !.monthIndex = f.monthIndex + 1]

\* the next step of a call: what Call, MonthStart, SnowballStep and MonthEnd do
StepOf(f, ds) ==
    CASE f.pc = "call" -> CallOf(f, ds)
      [] f.pc = "loop" -> MonthStartOf(f)
      [] f.pc = "snowball" ->
            IF SnowballGoes(f.active, f.stillActive, f.extra)
            THEN SnowballStepOf(f)
            ELSE MonthEndOf(f)
      [] OTHER -> f

\* the debt lists two calls share: every debt has a balance and a minimum payment
SharedDebtLists == DebtListsOver(1..MaxAmount, 1..MaxMin)

\* two calls bound to the same debts array and the same maxMonths; the second
\* call's extraPayment is the first call's or 0
InitConcurrent ==
    /\ debts \in SharedDebtLists
    /\ extraPayment \in NonNegativeExtraPayments
    /\ maxMonths = MaxMonths
    /\ pc = "call"
    /\ active = <<>>
    /\ totalMonthly = 0
    /\ months = <<>>
    /\ monthIndex = 0
    /\ stillActive = <<>>
    /\ extra = 0
    /\ payments = EmptyMap
    /\ remainingById = EmptyMap
    /\ \E ep \in {0, extraPayment} : other = NewFrame(ep, maxMonths)
    /\ NoPage

\* a step of the first call, its working records read through the objects
FirstStep ==
    /\ pc # "done"
    /\ \E f \in {StepOf([Frame EXCEPT !.active = Loaded(debts, active)], debts)} :
          /\ pc' = f.pc
          /\ active' = f.active
          /\ totalMonthly' = f.totalMonthly
          /\ months' = f.months
          /\ monthIndex' = f.monthIndex
          /\ stillActive' = f.stillActive
          /\ extra' = f.extra
          /\ payments' = f.payments
          /\ remainingById' = f.remainingById
          /\ debts' = Written(debts, f.active)
    /\ UNCHANGED <<extraPayment, maxMonths, other, pageVars>>

\* a step of the second call
SecondStep ==
    /\ other.pc # "done"
    /\ \E f \in {StepOf([other EXCEPT !.active = Loaded(debts, other.active)], debts)} :
          /\ other' = f
          /\ debts' = Written(debts, f.active)
    /\ UNCHANGED <<extraPayment, maxMonths, pc, active, totalMonthly, months,
                   monthIndex, stillActive, extra, payments, remainingById, pageVars>>

NextConcurrent == FirstStep \/ SecondStep

SpecConcurrent == InitConcurrent /\ [][NextConcurrent]_vars

\* ------------------------------------------- the call as one pure function
\* the snowball while-loop run to its exit
RECURSIVE SnowballPass(_, _)
SnowballPass(s, still) ==
    IF SnowballGoes(s.active, still, s.extra)
    THEN SnowballPass(SnowballOne(s, still), still)
    ELSE s

\* the month loop from monthIndex mi on, with the schedule ms built so far
RECURSIVE MonthLoop(_, _, _, _, _)
MonthLoop(act, total, mi, mm, ms) ==
    LET still == StillActiveOf(act)
    IN IF ~LoopGoes(mi, mm) \/ Len(still) = 0 THEN ms
       ELSE LET a == MinPass(act, still)
                b == SnowballPass([active |-> a.active,
                                   extra |-> ExtraOf(total, act, still),
                                   payments |-> a.payments,
                                   remainingById |-> a.remainingById], still)
                out == Append(ms, MonthRecord(mi, b.payments, b.remainingById))
            IN IF AllPaidOff(b.active, still) THEN out
               ELSE MonthLoop(b.active, total, mi + 1, mm, out)

\* runSnowball(debts, extraPayment, maxMonths)
RunSnowball(ds, ep, mm) ==
    LET act == MakeActive(ds)
    IN IF Len(act) = 0 THEN <<>>
       ELSE MonthLoop(act, TotalMonthlyOf(act, ep), 1, mm, <<>>)

\* ------------------------------------------------ the call as one step
\* const snowball = runSnowball(debts, extraPayment): the caller sees the
\* call as a single step from its arguments to the returned schedule
RunSnowballCall ==
    /\ pc = "call"
    /\ months' = RunSnowball(debts, extraPayment, maxMonths)
    /\ pc' = "done"
    /\ UNCHANGED <<debts, extraPayment, maxMonths, active, totalMonthly,
                   monthIndex, stillActive, extra, payments, remainingById,
                   other, pageVars>>

NextWholeCall == RunSnowballCall

\* the calls on the documented input domain, each taken as one step
SpecWholeCall == InitNonNegative /\ [][NextWholeCall]_vars

\* ------------------------------------------------------- the debt page
\* the balances an account is loaded with: a large debt, a debt at epsilon,
\* a credit balance
Balances == {0 - MaxAmount, 0 - 1, 1}

\* type, currency and balance of an account: the credit accounts, and a
\* debit account that owes
AccountShapes ==
    ({"credit"} \X Currencies \X Balances) \cup {<<"debit", "MXN", 0 - MaxAmount>>}

\* the account lists the page is loaded with; the ids are distinct
AccountLists ==
    UNION { { [i \in 1..n |-> [id |-> i, type |-> f[i][1], currency |-> f[i][2],
                               balance |-> f[i][3]]] :
                f \in [1..n -> AccountShapes] } :
            n \in 0..MaxDebts }

\* the values typed into the two number inputs
MinPaymentInputs == {0 - 1, 0, MaxMin}
ExtraPaymentInputs == {0 - 1, 0, MaxExtra}

\* the page mounted in a browser that holds no saved settings, its accounts
\* loaded, the save effect run, the schedule computed
InitDebtContent ==
    /\ accounts \in AccountLists
    /\ config = LoadConfig(NoItem)
    /\ stored = SaveConfig(config)
    /\ selectedCurrency = SelectedAmong("MXN", accounts)
    /\ debts = DebtsOf(accounts, selectedCurrency, config)
    /\ extraPayment = ExtraPaymentOf(config, selectedCurrency)
    /\ maxMonths = MaxMonths
    /\ months = RunSnowball(debts, extraPayment, maxMonths)
    /\ pc = "done"
    /\ active = <<>>
    /\ totalMonthly = 0
    /\ monthIndex = 0
    /\ stillActive = <<>>
    /\ extra = 0
    /\ payments = EmptyMap
    /\ remainingById = EmptyMap
    /\ other = NoCall
    /\ NoInstallments

\* the render after a change: the debts and snowball memos, and the save
\* effect when a handler has set config
Render ==
    /\ debts' = DebtsOf(accounts, selectedCurrency', config')
    /\ extraPayment' = ExtraPaymentOf(config', selectedCurrency')
    /\ months' = RunSnowball(debts', extraPayment', maxMonths)
    /\ UNCHANGED <<accounts, maxMonths, pc, active, totalMonthly, monthIndex,
                   stillActive, extra, payments, remainingById, other, installmentVars>>

\* setMinPayment(accountId, value)
SetMinPayment(accountId, value) ==
    /\ config' = [config EXCEPT !.minPaymentsByAccountId =
                                    Put(@, accountId, ClampInput(value))]
    /\ stored' = SaveConfig(config')
    /\ UNCHANGED selectedCurrency
    /\ Render

\* mutant: the budgets of the other currencies are not copied
SetExtraPayment_NoSpread(value) ==
    /\ config' = [config EXCEPT !.currencyBudgets =
                                    Put(EmptyMap, selectedCurrency,
                                        [extraPayment |-> ClampInput(value)])]
    /\ stored' = SaveConfig(config')
    /\ UNCHANGED selectedCurrency
    /\ Render

\* setExtraPayment(value)
SetExtraPayment(value) ==
    /\ config' = [config EXCEPT !.currencyBudgets =
                                    Put(@, selectedCurrency,
                                        [extraPayment |-> ClampInput(value)])]
    /\ stored' = SaveConfig(config')
    /\ UNCHANGED selectedCurrency
    /\ Render

\* onChange of the "Min / mo" input of a row of the accounts table
MinPaymentInput ==
    \E i \in 1..Len(debts) : \E value \in MinPaymentInputs :
        SetMinPayment(debts[i].id, value)

\* onChange of the "Extra payment per month" input
ExtraPaymentInput == \E value \in ExtraPaymentInputs : SetExtraPayment(value)

\* the "Reload saved" button
ReloadSaved ==
    /\ config' = LoadConfig(stored)
    /\ stored' = SaveConfig(config')
    /\ UNCHANGED selectedCurrency
    /\ Render

\* the "Clear" button
Clear ==
    /\ config' = DefaultConfig
    /\ stored' = SaveConfig(DefaultConfig)
    /\ UNCHANGED selectedCurrency
    /\ Render

\* the currencies the select offers
CurrencyOptions ==
    LET cs == CurrenciesOf(accounts)
    IN IF Len(cs) # 0 THEN {cs[k] : k \in 1..Len(cs)} ELSE Currencies

\* a choice in the "Currency" select
SelectCurrency ==
    /\ \E c \in CurrencyOptions : selectedCurrency' = SelectedAmong(c, accounts)
    /\ UNCHANGED <<config, stored>>
    /\ Render

\* the page is left and opened again
Mount ==
    /\ config' = LoadConfig(stored)
    /\ stored' = SaveConfig(config')
    /\ selectedCurrency' = SelectedAmong("MXN", accounts)
    /\ Render

NextDebtContent ==
    \/ MinPaymentInput
    \/ ExtraPaymentInput
    \/ ReloadSaved
    \/ Clear
    \/ SelectCurrency
    \/ Mount

SpecDebtContent == InitDebtContent /\ [][NextDebtContent]_vars

\* ------------------------------------------------ the installments section
\* the rows of the installments table: months_total > 0 and
\* 0 <= months_remaining <= months_total
RowCheck(row) ==
    /\ row.monthsTotal > 0
    /\ row.monthsRemaining >= 0
    /\ row.monthsRemaining <= row.monthsTotal

\* the tables the server starts with: rows with ids 1..n that pass the check
InstallmentTables ==
    UNION { { [i \in 1..n |-> [id |-> i, monthsTotal |-> f[i][1], monthsRemaining |-> f[i][2]]] :
                f \in [1..n -> {tr \in (1..MaxMonthsTotal) \X (0..MaxMonthsTotal) :
                                    tr[2] <= tr[1]}] } :
            n \in 1..MaxInstallments }

\* an asynchronous call under way.  op "paid": handlePaidOneMonth from its
\* PUT on; op "load": loadData.  at "sent": the request is on its way; at
\* "replied": the server has answered and the await has not resumed yet.
PaidTask(id, mr) ==
    [op |-> "paid", at |-> "sent", id |-> id, monthsRemaining |-> mr, rows |-> <<>>]
LoadTask == [op |-> "load", at |-> "sent", id |-> 0, monthsRemaining |-> 0, rows |-> <<>>]

\* the calls under way with one more / with one of the calls t gone; their
\* number.  (The calls under way do not wait for each other: a bag.)
Started(ts, t) == ts (+) SetToBag({t})
Ended(ts, t) == ts (-) SetToBag({t})
UnderWay(ts) == BagCardinality(ts)

\* the page mounted on a server that holds some installments: nothing shown
\* yet, the loadData of the mount effect under way
InitInstallments ==
    /\ server \in InstallmentTables
    /\ installments = <<>>
    /\ tasks = SetToBag({LoadTask})
    /\ accounts = <<>>
    /\ config = DefaultConfig
    /\ selectedCurrency = "MXN"
    /\ stored = SaveConfig(config)
    /\ debts = <<>>
    /\ extraPayment = 0
    /\ maxMonths = MaxMonths
    /\ months = <<>>
    /\ pc = "done"
    /\ active = <<>>
    /\ totalMonthly = 0
    /\ monthIndex = 0
    /\ stillActive = <<>>
    /\ extra = 0
    /\ payments = EmptyMap
    /\ remainingById = EmptyMap
    /\ other = NoCall

\* what no step of the installments section touches
SnowballUnchanged ==
    UNCHANGED <<debts, extraPayment, maxMonths, pc, active, totalMonthly, months,
                monthIndex, stillActive, extra, payments, remainingById, other,
                accounts, config, selectedCurrency, stored>>

\* disabled={i.monthsRemaining <= 0} of the "Paid 1" button
PaidOneDisabled(i) == i.monthsRemaining <= 0

\* mutant: the guard lets an installment with no month left through
NothingLeft_Negative(installment) == installment.monthsRemaining < 0

\* if (installment.monthsRemaining <= 0) return
NothingLeft(installment) == installment.monthsRemaining <= 0

\* handlePaidOneMonth(installment) up to its await: the update it sends, if any
HandlePaidOneMonth(installment) ==
    /\ tasks' = IF NothingLeft(installment) THEN tasks
                ELSE Started(tasks, PaidTask(installment.id,
                                             installment.monthsRemaining - 1))
    /\ UNCHANGED <<installments, server>>
    /\ SnowballUnchanged

\* a click on "Paid 1" in a row of the table, with the installment of that
\* row as it was rendered.  (The button of a row with no month left is
\* disabled; the handler is run on it all the same, and returns.)
PaidOneClick ==
    /\ UnderWay(tasks) < MaxTasks
    /\ \E r \in 1..Len(installments) : HandlePaidOneMonth(installments[r])

\* a click on "Refresh": loadData()
RefreshClick ==
    /\ UnderWay(tasks) < MaxTasks
    /\ tasks' = Started(tasks, LoadTask)
    /\ UNCHANGED <<installments, server>>
    /\ SnowballUnchanged

\* the row of id with its monthsRemaining set to mr
RowSet(row, id, mr) == IF row.id = id THEN [row EXCEPT !.monthsRemaining = mr] ELSE row

\* PUT /installments/{id} { months_remaining } reaches the server: the row is
\* updated unless the table's check refuses it, and the server answers
ServerPut ==
    \E t \in BagToSet(tasks) :
        /\ t.op = "paid" /\ t.at = "sent"
        /\ LET put == [r \in 1..Len(server) |->
                          RowSet(server[r], t.id, t.monthsRemaining)]
           IN server' = IF \A r \in 1..Len(put) : RowCheck(put[r]) THEN put ELSE server
        /\ tasks' = Started(Ended(tasks, t), [t EXCEPT !.at = "replied"])
        /\ UNCHANGED installments
        /\ SnowballUnchanged

\* the await of updateInstallment resumes: toast, then onRefresh()
PutReturns ==
    \E t \in BagToSet(tasks) :
        /\ t.op = "paid" /\ t.at = "replied"
        /\ tasks' = Started(Ended(tasks, t), LoadTask)
        /\ UNCHANGED <<installments, server>>
        /\ SnowballUnchanged

\* an await rejects (the request or its answer is lost): the catch block of
\* handlePaidOneMonth or of loadData, nothing is set
Throws ==
    \E t \in BagToSet(tasks) :
        /\ tasks' = Ended(tasks, t)
        /\ UNCHANGED <<installments, server>>
        /\ SnowballUnchanged

\* GET /installments reaches the server: the answer holds the rows as they
\* are, or the answer is not ok and getInstallments returns []
ServerGet ==
    \E t \in BagToSet(tasks) :
        /\ t.op = "load" /\ t.at = "sent"
        /\ \E rows \in {server, <<>>} :
              tasks' = Started(Ended(tasks, t), [t EXCEPT !.at = "replied", !.rows = rows])
        /\ UNCHANGED <<installments, server>>
        /\ SnowballUnchanged

\* the await of loadData resumes: setInstallments(insts)
LoadReturns ==
    \E t \in BagToSet(tasks) :
        /\ t.op = "load" /\ t.at = "replied"
        /\ installments' = t.rows
        /\ tasks' = Ended(tasks, t)
        /\ UNCHANGED server
        /\ SnowballUnchanged

NextInstallments ==
    \/ PaidOneClick
    \/ RefreshClick
    \/ ServerPut
    \/ PutReturns
    \/ Throws
    \/ ServerGet
    \/ LoadReturns

SpecInstallments == InitInstallments /\ [][NextInstallments]_vars

\* m.remainingById[d.id] ?? d.debtAmount
RemainingOrDebtAmount(m, d) ==
    IF d.id \in DOMAIN m.remainingById THEN m.remainingById[d.id] ELSE d.debtAmount

\* debts.reduce((sum, d) => sum + (m.remainingById[d.id] ?? d.debtAmount), 0),
\* over the first n debts
RECURSIVE RemainingDebtFrom(_, _, _)
RemainingDebtFrom(m, ds, n) ==
    IF n = 0 THEN 0
    ELSE RemainingDebtFrom(m, ds, n - 1) + RemainingOrDebtAmount(m, ds[n])

\* the "Remaining Debt" cell of the row of month m in the payoff table
RemainingDebt(m) == RemainingDebtFrom(m, debts, Len(debts))

\* snowball.slice(0, 24): the rows of the payoff table (the schedules of the
\* model are shorter than 24 months)
ShownRows == 24
PayoffRows == 1..Min(Len(months), ShownRows)

\* debts.some((d) => d.debtAmount > 0)
HasDebt == \E i \in 1..Len(debts) : debts[i].debtAmount > 0

\* snowball.length
MonthsToDebtFree == Len(months)

\* the text of the "Debt-Free In" card
DebtFreeIn ==
    IF HasDebt
    THEN IF MonthsToDebtFree # 0 THEN <<MonthsToDebtFree, "months">>
         ELSE <<"Set min payments">>
    ELSE <<"-">>

\* the body of the "Payoff Schedule" card: the hint or the table
PayoffSchedule ==
    IF Len(months) = 0
    THEN "Add minimum payments (and optionally an extra payment) to generate a plan."
    ELSE "table"

\* ------------------------------------------------------- shape of the state
TypeOK ==
    /\ pc \in {"call", "loop", "snowball", "done"}
    /\ Len(months) <= MaxMonths
    /\ pc = "done" => months = RunSnowball(debts, extraPayment, maxMonths)

\* --------------------------------------------- vocabulary of the properties
Done == pc = "done"

\* ids of the input debts, and of those that form the working set
InputIds == {debts[i].id : i \in 1..Len(debts)}
WorkingIds == {debts[i].id : i \in {j \in 1..Len(debts) : debts[j].debtAmount > 0}}

\* input record of a debt id
DebtOf(id) == debts[CHOOSE i \in 1..Len(debts) : debts[i].id = id]
MinOf(id) == DebtOf(id).minPayment
AmountOf(id) == DebtOf(id).debtAmount

\* sum of minPayment / of debtAmount over the debts with id in S
RECURSIVE SumMinOver(_)
SumMinOver(S) ==
    IF S = {} THEN 0
    ELSE LET x == CHOOSE y \in S : TRUE IN MinOf(x) + SumMinOver(S \ {x})

RECURSIVE SumAmountOver(_)
SumAmountOver(S) ==
    IF S = {} THEN 0
    ELSE LET x == CHOOSE y \in S : TRUE IN AmountOf(x) + SumAmountOver(S \ {x})

\* sum of the values of the map f
RECURSIVE SigmaFrom(_, _)
SigmaFrom(f, S) ==
    IF S = {} THEN 0
    ELSE LET x == CHOOSE y \in S : TRUE IN f[x] + SigmaFrom(f, S \ {x})
Sigma(f) == SigmaFrom(f, DOMAIN f)

NonNegativeInputs ==
    /\ extraPayment >= 0
    /\ \A i \in 1..Len(debts) : debts[i].minPayment >= 0

\* sum of minPayment over the debts with debtAmount > 0, plus extraPayment
Budget == SumMinOver(WorkingIds) + extraPayment

TotalDebt == SumAmountOver(WorkingIds)

MonthNos == 1..Len(months)

\* the debts active in month k: those with remaining > 0 at its start
ActiveIn(k) == DOMAIN months[k].payments

\* balance of a debt at the start of month k, read off the schedule
StartOf(k, id) == IF k = 1 THEN AmountOf(id) ELSE months[k - 1].remainingById[id]

\* the minimum-pass payment of a debt in month k, and its balance after it
MinPart(k, id) == Min(StartOf(k, id), Max(0, MinOf(id)))
AfterMin(k, id) == StartOf(k, id) - MinPart(k, id)

\* current balance of a working-set debt
RemainingOf(id) == active[CHOOSE i \in 1..Len(active) : active[i].id = id].remaining

\* the months that record a balance for id, and the last value recorded
RecordedIn(id) == {k \in MonthNos : id \in DOMAIN months[k].remainingById}
LastRecorded(id) ==
    months[CHOOSE k \in RecordedIn(id) : \A j \in RecordedIn(id) : j <= k].remainingById[id]

\* ------------------------------------------------------------------ claims
\* C1 (budget ceiling): with non-negative minPayments and extraPayment, every
\* month of the returned schedule has totalPaid <= (sum of minPayment over the
\* debts with debtAmount > 0) + extraPayment.
C1_BudgetCeiling ==
    (Done /\ NonNegativeInputs) => \A k \in MonthNos : months[k].totalPaid <= Budget

\* C1 witness: a finished two-debt schedule with a month that pays the whole
\* budget, part of it by the snowball pass.
C1_Witness ==
    /\ Done /\ NonNegativeInputs /\ Cardinality(WorkingIds) = 2 /\ extraPayment > 0
    /\ \E k \in MonthNos :
          /\ months[k].totalPaid = Budget
          /\ \E id \in ActiveIn(k) : months[k].payments[id] > MinOf(id)

\* C2 as stated: the payments of a month never exceed the sum of minPayment
\* over the debts active in that month plus extraPayment.
C2_ActiveMinCeiling ==
    (Done /\ NonNegativeInputs) =>
        \A k \in MonthNos :
            Sigma(months[k].payments) <= SumMinOver(ActiveIn(k)) + extraPayment

\* C2 amended: the payments of a month never exceed the sum of minPayment
\* over the debts active in that month, plus extraPayment, plus the sum of
\* minPayment over the working-set debts paid off before that month.
C2_RolloverCeiling ==
    (Done /\ NonNegativeInputs) =>
        \A k \in MonthNos :
            Sigma(months[k].payments)
                <= SumMinOver(ActiveIn(k)) + extraPayment
                     + SumMinOver(WorkingIds \ ActiveIn(k))

\* C2 witness: a month after a payoff pays more than the active minimums plus
\* extraPayment, using the freed minimum.
C2_Witness ==
    /\ Done /\ NonNegativeInputs
    /\ \E k \in MonthNos :
          /\ WorkingIds \ ActiveIn(k) # {}
          /\ Sigma(months[k].payments) > SumMinOver(ActiveIn(k)) + extraPayment

\* C3 (monotonic payoff): for every debt, a later month of the schedule never
\* records a larger remaining balance than an earlier month.
C3_MonotonicPayoff ==
    Done =>
        \A i \in MonthNos : \A j \in MonthNos :
            i < j =>
                \A id \in (DOMAIN months[i].remainingById)
                            \cap (DOMAIN months[j].remainingById) :
                    months[j].remainingById[id] <= months[i].remainingById[id]

\* C3 witness: two consecutive months in which one debt's recorded balance
\* falls and another's stays the same.
C3_Witness ==
    /\ Done
    /\ \E k \in MonthNos :
          /\ k + 1 \in MonthNos
          /\ \E a \in ActiveIn(k + 1) : \E b \in ActiveIn(k + 1) :
                /\ months[k + 1].remainingById[a] < months[k].remainingById[a]
                /\ months[k + 1].remainingById[b] = months[k].remainingById[b]

\* C4 as stated (payoff completeness): a returned non-empty schedule shorter
\* than maxMonths leaves every working-set debt at remaining = 0, and the last
\* value recorded for it is 0.  (Taken on non-negative inputs, which is all
\* it takes to refute it.)
C4_PaidToZero ==
    (Done /\ NonNegativeInputs /\ Len(months) > 0 /\ Len(months) < maxMonths) =>
        \A id \in WorkingIds : RemainingOf(id) = 0 /\ LastRecorded(id) = 0

\* C4 amended: a returned non-empty schedule shorter than maxMonths leaves
\* every working-set debt at 0 <= remaining <= epsilon (0.000001), and the
\* last value recorded for it is that remaining balance.
C4_PaidToEpsilon ==
    (Done /\ Len(months) > 0 /\ Len(months) < maxMonths) =>
        \A id \in WorkingIds :
            /\ RemainingOf(id) >= 0
            /\ RemainingOf(id) <= EPSILON
            /\ LastRecorded(id) = RemainingOf(id)

\* C4 witness: a two-debt schedule that ended below the cap after more than
\* one month, one debt paid to exactly 0 and one left at epsilon.
C4_Witness ==
    /\ Done /\ Len(months) > 1 /\ Len(months) < maxMonths
    /\ \E a \in WorkingIds : \E b \in WorkingIds :
          RemainingOf(a) = 0 /\ RemainingOf(b) = EPSILON

\* a measure of the work left: the months the loop may still run, and within
\* a month the snowball iterations that may still run
Phases == Len(debts) + 3
MonthsLeft == Max(0, maxMonths + 1 - monthIndex)
Variant ==
    CASE pc = "call" -> (maxMonths + 2) * Phases
      [] pc = "loop" -> MonthsLeft * Phases + Phases - 1
      [] pc = "snowball" ->
            MonthsLeft * Phases + Cardinality(Eligible(active, stillActive))
                + (IF extra > EPSILON THEN 1 ELSE 0)
      [] OTHER -> 0

\* C5 (bounded length): for every input the schedule never holds more than
\* maxMonths entries and the call terminates: every step lowers a
\* natural-number measure and leads to the return, to the top of the month
\* loop (where MonthStart is enabled) or into the snowball loop (where one of
\* SnowballStep and MonthEnd is enabled).
C5_BoundedLength ==
    [][/\ Len(months') <= maxMonths'
       /\ Variant \in Nat /\ Variant' \in Nat /\ Variant' < Variant
       /\ pc' \in {"loop", "snowball", "done"}]_vars

\* until the call has returned, a step is enabled
Progress == Done \/ ENABLED Next

\* the call returns, under weak fairness of its steps (FairSpec)
Termination == <>Done

\* C5 witness: the call returned because the cap was hit, with debt left.
C5_Witness ==
    /\ Done /\ maxMonths > 0 /\ Len(months) = maxMonths
    /\ \E id \in WorkingIds : RemainingOf(id) > EPSILON

\* C6 as stated (progress to payoff): with non-negative inputs and
\* sum(minPayment of the working set) + extraPayment > 0, every emitted month
\* has totalPaid > 0, and with maxMonths >= total debt the schedule ends with
\* every remaining = 0.
C6_Progress ==
    (Done /\ NonNegativeInputs /\ Budget > 0) =>
        /\ \A k \in MonthNos : months[k].totalPaid > 0
        /\ maxMonths >= TotalDebt => \A id \in WorkingIds : RemainingOf(id) = 0

\* C6 amended: with non-negative inputs, a budget above epsilon and every
\* working-set debtAmount above epsilon, every emitted month has
\* totalPaid > 0, and with maxMonths >= total debt (in units of 0.000001) the
\* schedule ends by payoff: every remaining <= epsilon.
C6_ProgressAboveEpsilon ==
    (/\ Done
     /\ NonNegativeInputs
     /\ Budget > EPSILON
     /\ \A id \in WorkingIds : AmountOf(id) > EPSILON) =>
        /\ \A k \in MonthNos : months[k].totalPaid > 0
        /\ maxMonths >= TotalDebt => \A id \in WorkingIds : RemainingOf(id) <= EPSILON

\* C6 witness: a payoff that took more than one month and ended within
\* maxMonths >= total debt.
C6_Witness ==
    /\ Done /\ NonNegativeInputs /\ Budget > EPSILON
    /\ WorkingIds # {}
    /\ \A id \in WorkingIds : AmountOf(id) > EPSILON
    /\ maxMonths >= TotalDebt
    /\ Len(months) > 1
    /\ \A id \in WorkingIds : RemainingOf(id) <= EPSILON

\* C7 as stated (smallest balance first): in every month a debt is paid more
\* than its minimum-pass payment only if every other active debt whose balance
\* after the minimum pass was strictly smaller and > 0 ends the month at 0.
\* (Taken on non-negative inputs, which is all it takes to refute it.)
C7_SmallestFirst ==
    (Done /\ NonNegativeInputs) =>
        \A k \in MonthNos : \A d \in ActiveIn(k) :
            months[k].payments[d] > MinPart(k, d) =>
                \A o \in ActiveIn(k) \ {d} :
                    (AfterMin(k, o) > 0 /\ AfterMin(k, o) < AfterMin(k, d)) =>
                        months[k].remainingById[o] = 0

\* C7 amended: in every month a debt is paid more than its minimum-pass
\* payment only if every other active debt whose balance after the minimum
\* pass was strictly smaller and above epsilon ends the month at 0.
C7_SmallestAboveEpsilonFirst ==
    Done =>
        \A k \in MonthNos : \A d \in ActiveIn(k) :
            months[k].payments[d] > MinPart(k, d) =>
                \A o \in ActiveIn(k) \ {d} :
                    (AfterMin(k, o) > EPSILON /\ AfterMin(k, o) < AfterMin(k, d)) =>
                        months[k].remainingById[o] = 0

\* C7 witness: a month in which the larger debt got snowball money after the
\* smaller one, above epsilon after its minimum, was cleared by the snowball.
C7_Witness ==
    /\ Done
    /\ \E k \in MonthNos : \E d \in ActiveIn(k) : \E o \in ActiveIn(k) \ {d} :
          /\ months[k].payments[d] > MinPart(k, d)
          /\ AfterMin(k, o) > EPSILON
          /\ AfterMin(k, o) < AfterMin(k, d)
          /\ months[k].remainingById[o] = 0

\* C8 (empty input): for an empty debt list, and for a list in which every
\* debt has debtAmount <= 0, the working set is empty and the call returns an
\* empty schedule, whatever extraPayment and the minPayments are.
C8_EmptyInput ==
    (Done /\ \A i \in 1..Len(debts) : debts[i].debtAmount <= 0) =>
        active = <<>> /\ months = <<>>

\* C8 witness: the call has returned for two debts without balance, one of
\* them negative, with a positive minPayment and a positive extraPayment.
C8_Witness ==
    /\ Done /\ Len(debts) = 2 /\ extraPayment > 0
    /\ \A i \in 1..Len(debts) : debts[i].debtAmount <= 0
    /\ \E i \in 1..Len(debts) : debts[i].debtAmount < 0
    /\ \E i \in 1..Len(debts) : debts[i].minPayment > 0
    /\ months = <<>>

\* the input list without the debts that have no balance
HasBalance(d) == d.debtAmount > 0
WithoutDropped == SelectSeq(debts, HasBalance)

\* C9 (dropped up front): the id of a debt with debtAmount <= 0 is a key of
\* no month's payments or remainingById, its minPayment is not part of the
\* monthly budget, and the schedule is the one runSnowball returns for the
\* input without those debts.
C9_DroppedUpFront ==
    Done =>
        /\ \A k \in MonthNos :
              /\ DOMAIN months[k].payments \subseteq WorkingIds
              /\ DOMAIN months[k].remainingById \subseteq WorkingIds
        /\ WorkingIds # {} => totalMonthly = Budget
        /\ months = RunSnowball(WithoutDropped, extraPayment, maxMonths)

\* C9 witness: a schedule was returned for a list that holds a debt with a
\* balance and a debt without one whose minPayment is positive.
C9_Witness ==
    /\ Done /\ months # <<>>
    /\ \E i \in 1..Len(debts) : debts[i].debtAmount <= 0 /\ debts[i].minPayment > 0
    /\ \E i \in 1..Len(debts) : debts[i].debtAmount > 0 /\ debts[i].minPayment > 0

\* a single debt D > 0 with minPayment m > 0, no extra payment, and a cap of
\* at least ceil(D / m) months
CeilDiv(a, b) == (a + b - 1) \div b
SingleDebt ==
    /\ Len(debts) = 1
    /\ debts[1].debtAmount > 0
    /\ debts[1].minPayment > 0
    /\ extraPayment = 0
    /\ maxMonths >= CeilDiv(debts[1].debtAmount, debts[1].minPayment)

\* month k pays min(m, D - (k-1)m) and records remaining max(0, D - k*m)
SingleDebtMonths ==
    LET D == debts[1].debtAmount
        m == debts[1].minPayment
        id == debts[1].id
    IN \A k \in MonthNos :
          /\ months[k].payments[id] = Min(m, D - (k - 1) * m)
          /\ months[k].remainingById[id] = Max(0, D - k * m)

\* the least k >= 1 with D - k*m <= epsilon
PayoffMonth(D, m) ==
    CHOOSE k \in 1..CeilDiv(D, m) :
        /\ D - k * m <= EPSILON
        /\ \A j \in 1..(k - 1) : D - j * m > EPSILON

\* C10 as stated (single debt, no extra): the schedule has exactly ceil(D/m)
\* months, month k pays min(m, D - (k-1)m) and records max(0, D - k*m), and
\* the last month records remaining 0.
C10_SingleDebtExact ==
    (Done /\ SingleDebt) =>
        /\ Len(months) = CeilDiv(debts[1].debtAmount, debts[1].minPayment)
        /\ SingleDebtMonths
        /\ months[Len(months)].remainingById[debts[1].id] = 0

\* C10 amended: the schedule has exactly K months, K the least k >= 1 with
\* D - k*m <= epsilon (which is ceil(D/m) unless a balance D - k*m falls in
\* (0, epsilon]); month k pays min(m, D - (k-1)m) and records max(0, D - k*m);
\* the last month records a remaining of at most epsilon.
C10_SingleDebtToEpsilon ==
    (Done /\ SingleDebt) =>
        /\ Len(months) = PayoffMonth(debts[1].debtAmount, debts[1].minPayment)
        /\ SingleDebtMonths
        /\ months[Len(months)].remainingById[debts[1].id] <= EPSILON

\* C10 witness: a single debt was paid off to exactly 0 by its minimum
\* payments alone in more than one month, ceil(D/m) of them.
C10_Witness ==
    /\ Done /\ SingleDebt
    /\ Len(months) > 1
    /\ Len(months) = CeilDiv(debts[1].debtAmount, debts[1].minPayment)
    /\ months[Len(months)].remainingById[debts[1].id] = 0

\* every step of the call is the step StepOf takes on its frame
StepsAgree == [][Frame' = StepOf(Frame, debts)]_vars

\* both calls have returned
BothDone == pc = "done" /\ other.pc = "done"

\* the two calls were given identical arguments (the debts array is shared)
SameArguments == other.extraPayment = extraPayment /\ other.maxMonths = maxMonths

\* C11 (determinism): two calls with identical debts, extraPayment and
\* maxMonths return identical schedules, in whatever order their steps are
\* taken, one call after the other included.
C11_Determinism == (BothDone /\ SameArguments) => other.months = months

\* C11 witness: two calls with identical arguments on two debts have both
\* returned a schedule of more than one month with an extra payment at work.
C11_Witness ==
    /\ BothDone /\ SameArguments
    /\ Len(debts) = 2 /\ extraPayment > EPSILON
    /\ Len(months) > 1 /\ other.months = months

\* the fields of a DebtItem as the caller built it
InputFields == {"id", "debtAmount", "minPayment"}

\* C12 (input immutability): no step of the call changes the debts array or
\* any record in it; in particular no `remaining` field is added to an input
\* record.
C12_InputUnchanged ==
    [][/\ debts' = debts
       /\ \A i \in 1..Len(debts') : DOMAIN debts'[i] = InputFields]_vars

\* C12 witness: the call has returned after paying a debt down to 0 in its
\* working copy, and the input record still holds its debtAmount and no
\* `remaining`.
C12_Witness ==
    /\ Done /\ Len(months) > 1
    /\ \E id \in WorkingIds :
          /\ RemainingOf(id) = 0
          /\ AmountOf(id) > EPSILON
          /\ DOMAIN DebtOf(id) = InputFields

\* the input with every negative minPayment replaced by 0
ClampedDebts ==
    [i \in 1..Len(debts) |-> [debts[i] EXCEPT !.minPayment = Max(0, debts[i].minPayment)]]

\* C13 as stated (negative inputs treated as 0): the schedule returned for an
\* input with negative minPayment or extraPayment values is the schedule
\* returned when every negative minPayment and a negative extraPayment are
\* replaced by 0.
C13_NegativeAsZero ==
    Done => months = RunSnowball(ClampedDebts, Max(0, extraPayment), maxMonths)

\* C14 (concurrent safety): of two calls whose steps are interleaved in any
\* order, each returns exactly the schedule runSnowball returns for its own
\* arguments when it runs alone.
C14_ConcurrentSafety ==
    /\ pc = "done" => months = RunSnowball(debts, extraPayment, maxMonths)
    /\ other.pc = "done" =>
          other.months = RunSnowball(debts, other.extraPayment, other.maxMonths)

\* C14 witness: the first call has returned a schedule of more than one month
\* while the second call, given another extraPayment, is in the middle of its
\* first month with a minimum payment made on the same debts.
C14_Witness ==
    /\ pc = "done" /\ Len(months) > 1
    /\ months = RunSnowball(debts, extraPayment, maxMonths)
    /\ other.extraPayment # extraPayment
    /\ other.pc = "snowball" /\ other.monthIndex = 1
    /\ \E i \in 1..Len(other.active) :
          other.active[i].remaining < other.active[i].debtAmount

\* C15 (caller-side clamping): in every state of the page, from its mount on
\* and after any sequence of minimum-payment and extra-payment inputs,
\* "Reload saved", "Clear", currency choices and re-mounts, the extraPayment
\* and every minPayment handed to runSnowball are >= 0.
C15_CallerClamps ==
    /\ extraPayment >= 0
    /\ \A i \in 1..Len(debts) : debts[i].minPayment >= 0

\* C15 witness: the page hands runSnowball a positive extraPayment, a debt
\* with a positive minPayment and a debt whose minPayment was entered and is
\* stored as 0.
C15_Witness ==
    /\ stored = SaveConfig(config)
    /\ extraPayment > 0
    /\ \E i \in 1..Len(debts) : debts[i].minPayment > 0
    /\ \E i \in 1..Len(debts) :
          /\ debts[i].id \in DOMAIN config.minPaymentsByAccountId
          /\ debts[i].minPayment = 0

\* C16 (final month included, nothing after it): every emitted month has a
\* non-empty payments map (no month is emitted for an empty active set);
\* after every month but the last at least one debt still has a remaining
\* balance above epsilon, hence > 0, so a month that leaves every debt at 0
\* is the last entry; and a schedule that ends with every debt paid off holds
\* the month that paid off the last one as its last entry.
C16_FinalMonth ==
    Done =>
        /\ \A k \in MonthNos :
              /\ DOMAIN months[k].payments # {}
              /\ DOMAIN months[k].remainingById # {}
              /\ k < Len(months) =>
                    \E id \in DOMAIN months[k].remainingById :
                        months[k].remainingById[id] > EPSILON
              /\ (\A id \in DOMAIN months[k].remainingById :
                        months[k].remainingById[id] = 0) => k = Len(months)
        /\ (/\ WorkingIds # {}
            /\ maxMonths >= 1
            /\ \A id \in WorkingIds : RemainingOf(id) <= EPSILON) =>
              /\ Len(months) >= 1
              /\ \A id \in DOMAIN months[Len(months)].remainingById :
                    months[Len(months)].remainingById[id] = RemainingOf(id)

\* C16 witness: two debts were paid off in more than one month, below the
\* cap; the last month took the last debt to 0 and the month before it left
\* a balance.
C16_Witness ==
    /\ Done /\ Cardinality(WorkingIds) = 2
    /\ Len(months) > 1 /\ Len(months) < maxMonths
    /\ \A id \in WorkingIds : RemainingOf(id) = 0
    /\ \E id \in DOMAIN months[Len(months)].payments :
          /\ months[Len(months)].payments[id] > 0
          /\ months[Len(months)].remainingById[id] = 0

\* ids of the debts in this month's stillActive (after the step)
StillActiveIds == {active[stillActive[k]].id : k \in 1..Len(stillActive)}

\* the step that opens a month: loop test passed, minimum pass done
OpensMonth == pc = "loop" /\ pc' = "snowball"

\* C17 (rollover): the monthly budget is computed once, at the entry of the
\* call, and no later step changes it; for non-negative inputs the amount the
\* snowball pass of a month starts with is extraPayment plus the sum of
\* minPayment over the working-set debts paid off before that month, and it
\* is never negative.
C17_Rollover ==
    [][/\ pc # "call" => totalMonthly' = totalMonthly
       /\ (pc = "call" /\ pc' # "done") => totalMonthly' = Budget
       /\ OpensMonth =>
             /\ extra' = extraPayment + SumMinOver(WorkingIds \ StillActiveIds')
             /\ extra' >= 0]_vars

\* C17 witness: a month after the first is in its snowball pass with more
\* than extraPayment, a paid-off debt's minimum rolled over.
C17_Witness ==
    /\ pc = "snowball" /\ monthIndex > 1
    /\ WorkingIds \ StillActiveIds # {}
    /\ extraPayment > 0
    /\ extra = extraPayment + SumMinOver(WorkingIds \ StillActiveIds)
    /\ extra > extraPayment

\* the debts with remaining > 0 at the start of month k: the working set in
\* month 1, then the debts the month before recorded with a balance > 0
OwingAtStart(k) ==
    IF k = 1 THEN WorkingIds
    ELSE {id \in DOMAIN months[k - 1].remainingById : months[k - 1].remainingById[id] > 0}

\* C18 (minimum-payment pass): in every month of the schedule the keys of
\* payments and the keys of remainingById are both exactly the debts with
\* remaining > 0 at the start of the month, a debt with minPayment 0
\* included, and each of them is paid at least
\* min(remaining at the start of the month, minPayment).
C18_MinimumPass ==
    Done =>
        \A k \in MonthNos :
            /\ DOMAIN months[k].payments = OwingAtStart(k)
            /\ DOMAIN months[k].remainingById = OwingAtStart(k)
            /\ \A id \in OwingAtStart(k) :
                  months[k].payments[id] >= Min(StartOf(k, id), MinOf(id))

\* C18 witness: a second month whose keys are one debt less than the working
\* set, holding a debt with minPayment 0 that is paid 0, after a first month
\* in which a debt was paid exactly its minimum.
C18_Witness ==
    /\ Done /\ Len(months) > 1
    /\ DOMAIN months[2].payments # WorkingIds
    /\ \E id \in DOMAIN months[2].payments :
          MinOf(id) = 0 /\ months[2].payments[id] = 0
    /\ \E id \in DOMAIN months[1].payments :
          MinOf(id) > 0 /\ months[1].payments[id] = MinOf(id)

\* what the months 1..k of the schedule paid to the debt id
RECURSIVE PaidUpTo(_, _)
PaidUpTo(id, k) ==
    IF k = 0 THEN 0
    ELSE PaidUpTo(id, k - 1)
           + (IF id \in DOMAIN months[k].payments THEN months[k].payments[id] ELSE 0)

\* C19 (payment accounting): in every month, for every debt recorded,
\* payments[id] is its remaining at the start of the month minus
\* remainingById[id]; totalPaid is the sum of the month's payments; and for
\* every working-set debt debtAmount is the sum of its payments over all
\* months plus its final remaining.
C19_PaymentAccounting ==
    Done =>
        /\ \A k \in MonthNos :
              /\ \A id \in DOMAIN months[k].payments :
                    /\ id \in DOMAIN months[k].remainingById
                    /\ k > 1 => id \in DOMAIN months[k - 1].remainingById
                    /\ months[k].payments[id]
                          = StartOf(k, id) - months[k].remainingById[id]
              /\ months[k].totalPaid = Sigma(months[k].payments)
        /\ \A id \in WorkingIds :
              AmountOf(id) = PaidUpTo(id, Len(months)) + RemainingOf(id)

\* C19 witness: one debt was paid off in month 1 by the minimum pass and the
\* snowball pass together; another was paid in month 1 and in month 2, and
\* its two payments and its final remaining add up to its debtAmount.
C19_Witness ==
    /\ Done /\ Len(months) = 2
    /\ \E id \in DOMAIN months[1].payments :
          /\ MinOf(id) > 0
          /\ months[1].payments[id] > MinOf(id)
          /\ months[1].payments[id] = AmountOf(id)
    /\ \E id \in DOMAIN months[2].payments :
          /\ months[1].payments[id] > 0
          /\ months[2].payments[id] > 0
          /\ AmountOf(id)
                = months[1].payments[id] + months[2].payments[id] + RemainingOf(id)

\* no balance below 0 or above the debtAmount, no payment below 0: in the
\* working records, in this month's maps and in the months pushed
NothingOverpaid ==
    /\ \A i \in 1..Len(active) :
          active[i].remaining >= 0 /\ active[i].remaining <= active[i].debtAmount
    /\ \A id \in DOMAIN payments : payments[id] >= 0
    /\ \A id \in DOMAIN remainingById : remainingById[id] >= 0
    /\ \A k \in MonthNos :
          /\ \A id \in DOMAIN months[k].payments : months[k].payments[id] >= 0
          /\ \A id \in DOMAIN months[k].remainingById : months[k].remainingById[id] >= 0

\* the snowball pass has extra left and no debt above epsilon to give it to
SurplusLeft ==
    /\ pc = "snowball"
    /\ extra > EPSILON
    /\ Eligible(active, stillActive) = {}

\* C20 (no overpayment): before and after every step every remaining is
\* >= 0 and every recorded payment is >= 0, so a debt is never paid more than
\* it still owes; and when the snowball pass finds no debt with remaining
\* above epsilon it stops: the next step closes the month with extra, the
\* balances and the payments as they are, the surplus unused.
C20_NoOverpayment ==
    [][/\ NothingOverpaid
       /\ NothingOverpaid'
       /\ SurplusLeft =>
             /\ pc' # "snowball"
             /\ extra' = extra
             /\ active' = active
             /\ months' = Append(months, MonthRecord(monthIndex, payments, remainingById))]_vars

\* C20 witness: the snowball pass has paid a debt off and stands with extra
\* above epsilon and no debt above epsilon left to pay.
C20_Witness ==
    /\ SurplusLeft
    /\ NothingOverpaid
    /\ \E i \in 1..Len(active) :
          /\ active[i].remaining = 0
          /\ payments[active[i].id] > Max(0, active[i].minPayment)

\* C21 (month numbering): at every point of the call the i-th month pushed
\* (counting from 1) has monthIndex = i, so the month indices of the returned
\* schedule are consecutive, start at 1, and the last one is the length of
\* the schedule.
C21_MonthNumbering ==
    /\ \A k \in MonthNos : months[k].monthIndex = k
    /\ (Done /\ months # <<>>) => months[Len(months)].monthIndex = Len(months)

\* C21 witness: the call has returned a schedule as long as the cap allows,
\* its months numbered 1, 2, 3.
C21_Witness ==
    /\ Done /\ Len(months) = 3
    /\ months[1].monthIndex = 1
    /\ months[2].monthIndex = 2
    /\ months[3].monthIndex = 3

\* the working set is not empty, its minPayments and extraPayment are all 0
ZeroBudget ==
    /\ WorkingIds # {}
    /\ \A id \in WorkingIds : MinOf(id) = 0
    /\ extraPayment = 0

\* every month pays nothing and records every working-set debt at its debtAmount
NothingPaid ==
    \A k \in MonthNos :
        /\ months[k].totalPaid = 0
        /\ DOMAIN months[k].remainingById = WorkingIds
        /\ \A id \in WorkingIds : months[k].remainingById[id] = AmountOf(id)

\* C22 as stated (zero budget hits the cap): when the working set is
\* non-empty and every working-set minPayment and extraPayment are 0, the
\* schedule has exactly maxMonths entries, each with totalPaid = 0 and
\* remainingById equal to the debtAmount of every working-set debt.
C22_ZeroBudgetCap ==
    (Done /\ ZeroBudget) => Len(months) = maxMonths /\ NothingPaid

\* C22 amended: under the same conditions the schedule has exactly maxMonths
\* entries when some working-set debtAmount is above epsilon, and
\* min(1, maxMonths) entries when every working-set debtAmount is at most
\* epsilon; each entry has totalPaid = 0 and remainingById equal to the
\* debtAmount of every working-set debt.
C22_ZeroBudgetCapAboveEpsilon ==
    (Done /\ ZeroBudget) =>
        /\ (\E id \in WorkingIds : AmountOf(id) > EPSILON) => Len(months) = maxMonths
        /\ (\A id \in WorkingIds : AmountOf(id) <= EPSILON) =>
              Len(months) = Min(1, maxMonths)
        /\ NothingPaid

\* C22 witness: two debts, one of them above epsilon, no minimum and no extra
\* payment: the call returned at the cap of 3 months with nothing paid.
C22_Witness ==
    /\ Done /\ ZeroBudget /\ Cardinality(WorkingIds) = 2
    /\ \E id \in WorkingIds : AmountOf(id) > EPSILON
    /\ maxMonths = 3 /\ Len(months) = 3
    /\ months[3].totalPaid = 0

\* the input list in another order: debts[f[1]], debts[f[2]], ...
Reordered(f) == [i \in 1..Len(debts) |-> debts[f[i]]]

\* the schedule s has the length and the monthly totals of the returned one
SameTotals(s) ==
    /\ Len(s) = Len(months)
    /\ \A k \in 1..Len(s) : k \in MonthNos => s[k].totalPaid = months[k].totalPaid

\* every permutation of the input debts list yields a schedule with the
\* length and the monthly totals of the returned one
AnyOrderSameTotals ==
    \A f \in Permutations(1..Len(debts)) :
        SameTotals(RunSnowball(Reordered(f), extraPayment, maxMonths))

\* C23 as stated (tie-break independence): for non-negative inputs every
\* permutation of the input debts list yields a schedule with the same length
\* and the same totalPaid in every month.
C23_OrderIndependent ==
    (Done /\ NonNegativeInputs) => AnyOrderSameTotals

\* the working-set debts all have the same minPayment
EqualMinimums == \A a \in WorkingIds : \A b \in WorkingIds : MinOf(a) = MinOf(b)

\* C23 amended: for non-negative inputs whose working-set debts all have the
\* same minPayment (debts that tie for the smallest remaining balance are
\* then interchangeable), every permutation of the input debts list yields a
\* schedule with the same length and the same totalPaid in every month.
C23_OrderIndependentEqualMinimums ==
    (Done /\ NonNegativeInputs /\ EqualMinimums) => AnyOrderSameTotals

\* C23 witness: two debts of the same balance and the same minPayment, tied
\* when the snowball pass of month 1 chose its target; the call returned a
\* schedule of more than one month, and the list in the other order gives a
\* schedule that pays the other debt first.
C23_Witness ==
    /\ Done /\ NonNegativeInputs /\ EqualMinimums
    /\ Len(debts) = 2 /\ Cardinality(WorkingIds) = 2
    /\ debts[1].debtAmount = debts[2].debtAmount
    /\ extraPayment > EPSILON
    /\ Len(months) > 1
    /\ months[1].payments[debts[1].id] > months[1].payments[debts[2].id]
    /\ RunSnowball(<<debts[2], debts[1]>>, extraPayment, maxMonths) # months

\* some debt is recorded above 0 / above epsilon after month k
OwingAfter(k) == \E id \in DOMAIN months[k].remainingById : months[k].remainingById[id] > 0
OwingAboveEpsilonAfter(k) ==
    \E id \in DOMAIN months[k].remainingById : months[k].remainingById[id] > EPSILON

\* the part of the minimums of month k that the cap min(remaining, minPayment)
\* leaves unpaid, summed over the debts in S
RECURSIVE CappedOver(_, _)
CappedOver(k, S) ==
    IF S = {} THEN 0
    ELSE LET x == CHOOSE y \in S : TRUE
         IN (MinOf(x) - MinPart(k, x)) + CappedOver(k, S \ {x})

Capped(k) == CappedOver(k, ActiveIn(k))

\* C24 as stated (full use of the budget): for non-negative inputs, in every
\* month after which some debt still has remaining > 0, totalPaid equals the
\* full monthly budget (sum of working-set minPayments + extraPayment).
C24_FullBudget ==
    (Done /\ NonNegativeInputs) =>
        \A k \in MonthNos : OwingAfter(k) => months[k].totalPaid = Budget

\* C24 amended: for non-negative inputs, in every month after which some debt
\* still has remaining above epsilon, totalPaid is the monthly budget less
\* what the active debts owed below their minPayment at the start of the
\* month (minPayment - remaining, for each such debt), to within epsilon; so
\* it is the full budget, to within epsilon, when every active debt started
\* the month owing at least its minPayment.
C24_BudgetLessCappedMinimums ==
    (Done /\ NonNegativeInputs) =>
        \A k \in MonthNos :
            OwingAboveEpsilonAfter(k) =>
                /\ months[k].totalPaid <= Budget - Capped(k)
                /\ months[k].totalPaid >= Budget - Capped(k) - EPSILON
                /\ Capped(k) >= 0

\* C24 witness: a month that pays minimums and snowball money and leaves a
\* debt above epsilon, but pays less than the budget: a debt owed less than
\* its minimum, and that part of the budget went unused.
C24_Witness ==
    /\ Done /\ NonNegativeInputs /\ extraPayment > 0
    /\ \E k \in MonthNos :
          /\ k < Len(months)
          /\ OwingAboveEpsilonAfter(k)
          /\ Capped(k) > 0
          /\ months[k].totalPaid = Budget - Capped(k)
          /\ \E id \in ActiveIn(k) : months[k].payments[id] > MinOf(id)

\* the balance of a debt after month k: the last balance the months 1..k
\* recorded for it, its debtAmount if none did
BalanceAfter(k, id) ==
    LET rec == {j \in 1..k : id \in DOMAIN months[j].remainingById}
    IN IF rec = {} THEN AmountOf(id)
       ELSE months[CHOOSE j \in rec : \A i \in rec : i <= j].remainingById[id]

RECURSIVE BalancesAfterOver(_, _)
BalancesAfterOver(k, S) ==
    IF S = {} THEN 0
    ELSE LET x == CHOOSE y \in S : TRUE
         IN BalanceAfter(k, x) + BalancesAfterOver(k, S \ {x})

\* the sum of the balances of all the debts of the page after month k
TrueRemainingDebt(k) == BalancesAfterOver(k, InputIds)

\* C25 as stated (displayed remaining debt): for every row of the payoff
\* table the "Remaining Debt" shown equals the sum of the debts' remaining
\* balances after that month, and it does not grow from one row to the next.
C25_DisplayedRemaining ==
    \A k \in PayoffRows :
        /\ RemainingDebt(months[k]) = TrueRemainingDebt(k)
        /\ k > 1 => RemainingDebt(months[k]) <= RemainingDebt(months[k - 1])

\* the page holds a debt, and no minimum payment and no extra payment is set
NoPayments ==
    /\ HasDebt
    /\ \A i \in 1..Len(debts) : debts[i].minPayment = 0
    /\ extraPayment = 0

\* C26 as stated (no plan without payments): when at least one credit
\* account has debtAmount > 0 and all minimum payments and the extra payment
\* are 0, the schedule is empty, the "Debt-Free In" card shows "Set min
\* payments" and the "Payoff Schedule" card shows the hint, not a table.
C26_NoPlanWithoutPayments ==
    NoPayments =>
        /\ months = <<>>
        /\ DebtFreeIn = <<"Set min payments">>
        /\ PayoffSchedule # "table"

\* the map g is the map f with the entry of key k set to v, nothing else changed
OnlyEntrySet(f, g, k, v) ==
    /\ DOMAIN g = (DOMAIN f) \cup {k}
    /\ g[k] = v
    /\ \A x \in (DOMAIN f) \ {k} : g[x] = f[x]

\* C27 (config frame): a step of setExtraPayment(v) sets the extraPayment of
\* the selected currency to max(0, v) and leaves the budgets of the other
\* currencies, the version and all of minPaymentsByAccountId as they were; a
\* step of setMinPayment(id, v) sets the entry of id to max(0, v) and leaves
\* the entries of the other accounts, the version and the currency budgets
\* as they were.
C27_ConfigFrame ==
    [][/\ \A v \in ExtraPaymentInputs :
             SetExtraPayment(v) =>
                 /\ OnlyEntrySet(config.currencyBudgets, config'.currencyBudgets,
                                 selectedCurrency, [extraPayment |-> Max(0, v)])
                 /\ config'.minPaymentsByAccountId = config.minPaymentsByAccountId
                 /\ config'.version = config.version
       /\ \A i \in 1..Len(debts) : \A v \in MinPaymentInputs :
             SetMinPayment(debts[i].id, v) =>
                 /\ OnlyEntrySet(config.minPaymentsByAccountId,
                                 config'.minPaymentsByAccountId, debts[i].id, Max(0, v))
                 /\ config'.currencyBudgets = config.currencyBudgets
                 /\ config'.version = config.version]_vars

\* C27 witness: both currencies hold an extra payment, set one after the
\* other, and two accounts hold a minimum payment entry, one of them 0 and
\* one positive.
C27_Witness ==
    /\ \A c \in Currencies :
          c \in DOMAIN config.currencyBudgets /\ config.currencyBudgets[c].extraPayment > 0
    /\ \E a \in DOMAIN config.minPaymentsByAccountId :
       \E b \in DOMAIN config.minPaymentsByAccountId :
          config.minPaymentsByAccountId[a] = 0 /\ config.minPaymentsByAccountId[b] > 0

\* C28 (persistence consistency): after every step of the page (minimum and
\* extra payment inputs, "Clear", "Reload saved", currency choices and
\* re-mounts, each with its save effect) the item stored under
\* debt_tracker_config_v1 is saveConfig of the config in memory, loadConfig
\* of it returns that config, and a step of "Reload saved" leaves the config
\* in memory as it was.
C28_PersistenceConsistency ==
    [][/\ stored' = SaveConfig(config')
       /\ LoadConfig(stored') = config'
       /\ LoadConfig(SaveConfig(config')) = config'
       /\ ReloadSaved => config' = config]_vars

\* C28 witness: settings that differ from the default in a minimum payment
\* and in the extra payment of both currencies are in memory and in the
\* store, and loadConfig returns them.
C28_Witness ==
    /\ stored = SaveConfig(config)
    /\ LoadConfig(stored) = config
    /\ config # DefaultConfig
    /\ \E id \in DOMAIN config.minPaymentsByAccountId : config.minPaymentsByAccountId[id] > 0
    /\ \A c \in Currencies : config.currencyBudgets[c].extraPayment > 0

\* no monthsRemaining below 0: in the rows of the server, in the rows the
\* page holds, in the rows of an answer on its way and in the updates sent
NoMonthsBelowZero ==
    /\ \A r \in 1..Len(server) : server[r].monthsRemaining >= 0
    /\ \A r \in 1..Len(installments) : installments[r].monthsRemaining >= 0
    /\ \A t \in BagToSet(tasks) :
          /\ t.op = "paid" => t.monthsRemaining >= 0
          /\ \A r \in 1..Len(t.rows) : t.rows[r].monthsRemaining >= 0

\* the updates under way
Updates(ts) == {t \in BagToSet(ts) : t.op = "paid" /\ t.at = "sent"}

\* C29 (installment "Paid 1"): whatever the order of "Paid 1" clicks,
\* refreshes, answers and failures, several clicks before a refresh completes
\* included, no installment's monthsRemaining is below 0 after a step, on the
\* server, on the page or in an update sent; and a click on an installment
\* shown with monthsRemaining <= 0 (its button is disabled) sends no update.
C29_PaidOne ==
    [][/\ NoMonthsBelowZero'
       /\ \A r \in 1..Len(installments) :
             (PaidOneDisabled(installments[r]) /\ HandlePaidOneMonth(installments[r])) =>
                 tasks' = tasks]_vars

\* C29 witness: the page still shows an installment with one month left
\* while the server holds it at 0, and a second update for it, sent by a
\* click before the refresh completed, is under way.
C29_Witness ==
    /\ NoMonthsBelowZero
    /\ \E r \in 1..Len(installments) :
          /\ installments[r].monthsRemaining = 1
          /\ \E q \in 1..Len(server) :
                server[q].id = installments[r].id /\ server[q].monthsRemaining = 0
          /\ \E t \in Updates(tasks) :
                t.id = installments[r].id /\ t.monthsRemaining = 0
====
